---------------------------- MODULE Spec2Model ----------------------------
(***************************************************************************)
(* A model of dyndep: the parsing of Dynamo documents (.dyn scripts and    *)
(* .dyf custom nodes) into file entities (builder.py, content_builder.py), *)
(* the cross-file linker and the graph projection (service.py, models.py). *)
(*                                                                         *)
(* A JSON object is a TLA+ record that has exactly the keys the document   *)
(* has; a key whose JSON value is null has the value Null.  Text that the  *)
(* code inspects character by character (file names, GUID signatures) is a *)
(* sequence of one-character strings.  A Python exception is the string    *)
(* naming it in the err field of a result; NoErr means no exception.       *)
(***************************************************************************)
EXTENDS Integers, Sequences, FiniteSets, TLC

VARIABLES
    files,       \* the batch handed to the operation: sequence of DynFile
    discovered,  \* builder classes found in content_builder's globals(), in order
    BUILDERS,    \* content_builder.BUILDERS, the registry cache
    pc,          \* position inside service.script_n_custom_nodes
    idx,         \* index of the next file of the current parse loop
    parsed,      \* CustomNodeFile entities built so far (builder.get_custom_file_nodes)
    library,     \* custom_dict.values(): the uuid-unique CustomNodeFile entities
    scripts,     \* ScriptFile entities built so far (builder.get_script_nodes)
    used_in,     \* CustomNodeFile.used_in of every custom entity, by object id
    log,         \* the failures printed by _get_file_content: file indexes
    reads,       \* number of getvalue() calls per file index
    error,       \* the exception that left the operation, or NoErr
    linkRuns,    \* number of completed calls of service.add_used_in
    proj         \* the last GraphElement returned by service.graph_elements

vars == <<files, discovered, BUILDERS, pc, idx, parsed, library, scripts,
          used_in, log, reads, error, linkRuns, proj>>

-----------------------------------------------------------------------------
(* Generic helpers *)

Null == "<null>"
NoErr == "none"

Range(s) == {s[i] : i \in DOMAIN s}

\* a value bound to a name: K applied to v
With(v, K(_)) == K(v)

\* dict.get(key, default)
Get(content, key, default) == IF key \in DOMAIN content THEN content[key] ELSE default

\* [x for x in s if Test(x)]
RECURSIVE Filter(_, _, _)
Filter(s, Test(_), i) ==
    IF i > Len(s) THEN <<>>
    ELSE (IF Test(s[i]) THEN <<s[i]>> ELSE <<>>) \o Filter(s, Test, i + 1)

\* the indexes i of s, ascending, with Test(s[i])
RECURSIVE FilterIdx(_, _, _)
FilterIdx(s, Test(_), i) ==
    IF i > Len(s) THEN <<>>
    ELSE (IF Test(s[i]) THEN <<i>> ELSE <<>>) \o FilterIdx(s, Test, i + 1)

-----------------------------------------------------------------------------
(* Text: str.lower() and str.endswith() on sequences of characters *)

LowerOf ==
    [c \in {"D", "Y", "N", "F", "S", "C", "T", "X"} |->
        CASE c = "D" -> "d" [] c = "Y" -> "y" [] c = "N" -> "n" [] c = "F" -> "f"
          [] c = "S" -> "s" [] c = "C" -> "c" [] c = "T" -> "t" [] c = "X" -> "x"]

lower(s) == [i \in DOMAIN s |-> IF s[i] \in DOMAIN LowerOf THEN LowerOf[s[i]] ELSE s[i]]

endswith(s, suffix) ==
    /\ Len(s) >= Len(suffix)
    /\ SubSeq(s, Len(s) - Len(suffix) + 1, Len(s)) = suffix

-----------------------------------------------------------------------------
(* content_builder.py: helpers shared by node- and file-level validation *)

ErrKeyId == "KeyError('Id')"
ErrNoId == "Exception('has no ID')"
ErrNoName == "Exception('Content has no Name')"
ErrNoUuid == "Exception('Content has no UUID')"
ErrNoView == "Exception('No Node View')"
ErrKeyCode == "KeyError('Code')"
ErrKeyVersion == "KeyError('Version')"
ErrKeyTitle == "KeyError('Title')"
ErrKeySignature == "KeyError('FunctionSignature')"
ErrTypeError == "TypeError('expected string or bytes-like object')"
ErrConfig == "Exception('Zero or more then one default builder found.')"
ErrNoBuilder == "Exception('No builder found for content')"

\* get_node_id: content["Id"], an error when the key is missing or null
get_node_id(content) ==
    IF "Id" \notin DOMAIN content THEN [err |-> ErrKeyId, val |-> Null]
    ELSE IF content.Id = Null THEN [err |-> ErrNoId, val |-> Null]
    ELSE [err |-> NoErr, val |-> content.Id]

\* get_node_name: content.get("Name"), an error when missing or null
get_node_name(content) ==
    IF "Name" \notin DOMAIN content \/ content.Name = Null
    THEN [err |-> ErrNoName, val |-> Null]
    ELSE [err |-> NoErr, val |-> content.Name]

_get_node_type(content) ==
    IF "NodeType" \in DOMAIN content THEN content.NodeType ELSE "NO NODE TYPE"

_get_concrete_type(content) ==
    IF "ConcreteType" \in DOMAIN content THEN content.ConcreteType
    ELSE "NO CONCRETE TYPE"

-----------------------------------------------------------------------------
(* content_builder.py: the builder classes and their rules *)

DefaultNodeBuilder == "DefaultNodeBuilder"
CodeNodeBuilder == "CodeNodeBuilder"
CustomNodeBuilder == "CustomNodeBuilder"

PYTHON_CONCRETE == "PythonNodeModels.PythonNode, PythonNodeModels"
CUSTOM_CONCRETE == "Dynamo.Graph.Nodes.CustomNodes.Function, DynamoCore"
GUID_PATTERN == "re.Pattern"

Alnum ==
    {"a", "b", "c", "d", "e", "f", "g", "h", "i", "j", "k", "l", "m", "n", "o", "p",
     "q", "r", "s", "t", "u", "v", "w", "x", "y", "z",
     "A", "B", "C", "D", "E", "F", "G", "H", "I", "J", "K", "L", "M", "N", "O", "P",
     "Q", "R", "S", "T", "U", "V", "W", "X", "Y", "Z",
     "0", "1", "2", "3", "4", "5", "6", "7", "8", "9"}

\* the places of the hyphens in ([a-zA-Z0-9]{8})-(...{4})-(...{4})-(...{4})-(...{12})
GuidHyphens == {9, 14, 19, 24}

GuidLen == 36

\* GUID_PATTERN.match(text) is not None: the pattern matches a prefix of text
GuidMatch(text) ==
    /\ Len(text) >= GuidLen
    /\ \A i \in 1..GuidLen :
          IF i \in GuidHyphens THEN text[i] = "-" ELSE text[i] \in Alnum

\* cls.lookup(): the dict's items, in the order of the literal
lookup(builder) ==
    CASE builder = DefaultNodeBuilder ->
            <<[key |-> "ConcreteType", value |-> ""],
              [key |-> "NodeType", value |-> ""]>>
      [] builder = CodeNodeBuilder ->
            <<[key |-> "ConcreteType", value |-> PYTHON_CONCRETE],
              [key |-> "NodeType", value |-> "PythonScriptNode"]>>
      [] builder = CustomNodeBuilder ->
            <<[key |-> "ConcreteType", value |-> CUSTOM_CONCRETE],
              [key |-> "FunctionType", value |-> "Graph"],
              [key |-> "FunctionSignature", value |-> GUID_PATTERN]>>

\* cls.is_node_value(content, key, value): "T", "F" or the TypeError of
\* Pattern.match(None)
is_node_value(builder, content, key, value) ==
    CASE builder = DefaultNodeBuilder ->
            IF key \in DOMAIN content THEN "T" ELSE "F"
      [] builder = CodeNodeBuilder ->
            IF key \in DOMAIN content /\ content[key] = value THEN "T" ELSE "F"
      [] builder = CustomNodeBuilder ->
            IF value = GUID_PATTERN
            THEN IF key \notin DOMAIN content THEN ErrTypeError
                 ELSE IF GuidMatch(content[key]) THEN "T" ELSE "F"
            ELSE IF key \in DOMAIN content /\ content[key] = value THEN "T" ELSE "F"

\* all(...) over the items of lookup() from item i on: stops at the first
\* False, and an exception raised by an item leaves all()
RECURSIVE AllNodeValues(_, _, _, _)
AllNodeValues(builder, content, items, i) ==
    IF i > Len(items) THEN "T"
    ELSE With(is_node_value(builder, content, items[i].key, items[i].value),
              LAMBDA r : IF r = "T" THEN AllNodeValues(builder, content, items, i + 1)
                         ELSE r)

is_builder_for(builder, content) == AllNodeValues(builder, content, lookup(builder), 1)

-----------------------------------------------------------------------------
(* content_builder.py: the builder registry *)

\* all(len(val) == 0 ...) over values: stops at the first non-empty value
AllEmpty(items) == \A i \in DOMAIN items : items[i].value = ""

\* _is_default (len() never reaches the compiled pattern of
\* CustomNodeBuilder: an earlier value is not empty)
_is_default(builder) == AllEmpty(lookup(builder))

NotDefault(builder) == ~_is_default(builder)

\* _ensure_default_is_last that counts the default builders and leaves the
\* list in the order of discovery
Mut_DefaultStaysInPlace(builders) ==
    IF Len(Filter(builders, _is_default, 1)) # 1 THEN [err |-> ErrConfig, val |-> <<>>]
    ELSE [err |-> NoErr, val |-> builders]

\* _ensure_default_is_last: exactly one default builder, moved to the end
_ensure_default_is_last(builders) ==
    With(Filter(builders, _is_default, 1),
         LAMBDA builder :
            IF Len(builder) # 1 THEN [err |-> ErrConfig, val |-> <<>>]
            ELSE [err |-> NoErr, val |-> Filter(builders, NotDefault, 1) \o builder])

\* _create_builder: one instance per concrete NodeBuilder class of globals()
\* whose name contains "builder"; found is that list of classes, in order
_create_builder(found) == _ensure_default_is_last(found)

\* _get_builders: the cache, filled on the first call that succeeds
_get_builders(registry, found) ==
    IF Len(registry) = 0 THEN _create_builder(found)
    ELSE [err |-> NoErr, val |-> registry]

\* the loop of node_builder from builder i on
RECURSIVE FirstBuilderFor(_, _, _)
FirstBuilderFor(builders, content, i) ==
    IF i > Len(builders) THEN [err |-> ErrNoBuilder, val |-> Null]
    ELSE With(is_builder_for(builders[i], content),
              LAMBDA r :
                 IF r = "T" THEN [err |-> NoErr, val |-> builders[i]]
                 ELSE IF r = "F" THEN FirstBuilderFor(builders, content, i + 1)
                 ELSE [err |-> r, val |-> Null])

\* node_builder(content): the builder found (val), the exception (err) and
\* the value of BUILDERS after the call (registry)
node_builder(content, registry, found) ==
    With(_get_builders(registry, found),
         LAMBDA got :
            IF got.err # NoErr
            THEN [err |-> got.err, val |-> Null, registry |-> registry]
            ELSE With(FirstBuilderFor(got.val, content, 1),
                      LAMBDA r : [err |-> r.err, val |-> r.val, registry |-> got.val]))

-----------------------------------------------------------------------------
(* content_builder.py: building one node; models.py: the node classes *)

\* BaseNode.group = None; otherwise group is the position, in the file's
\* groups list, of the Annotation object the field refers to
NoGroup == 0

\* Package.default(): a fresh object per call; ref tells Package objects apart
\* (0: a default instance, i: the object built from entry i of
\* NodeLibraryDependencies)
PackageDefault == [name |-> "DEFAULT", version |-> "0.0.0", ref |-> 0]

\* NodeBuilder._node_id
_node_id(node, views) ==
    With(get_node_id(node),
         LAMBDA id :
            IF id.err # NoErr THEN id
            ELSE IF id.val \notin DOMAIN views THEN [err |-> ErrNoView, val |-> Null]
            ELSE id)

_get_node_content(content, views) ==
    [Node |-> content, View |-> views[content.Id]]

\* DefaultNodeBuilder.build after _node_id and the name
DefaultBuild(node, views, name) ==
    [err |-> NoErr,
     val |-> [cls |-> "DynamoNode", uuid |-> node.Id, name |-> name,
              content |-> _get_node_content(node, views),
              node_type |-> _get_node_type(node),
              concrete_type |-> _get_concrete_type(node),
              group |-> NoGroup]]

\* CodeNodeBuilder.build after _node_id and the name
CodeBuild(node, views, name) ==
    IF "Code" \notin DOMAIN node THEN [err |-> ErrKeyCode, val |-> Null]
    ELSE [err |-> NoErr,
          val |-> [cls |-> "PythonCodeNode", uuid |-> node.Id, name |-> name,
                   content |-> _get_node_content(node, views),
                   node_type |-> _get_node_type(node),
                   concrete_type |-> _get_concrete_type(node),
                   code |-> node.Code,
                   engine |-> IF "Engine" \in DOMAIN node THEN node.Engine
                              ELSE "IronPython2",
                   group |-> NoGroup]]

\* CustomNodeBuilder.build after _node_id and the name
CustomBuild(node, views, name) ==
    IF "FunctionSignature" \notin DOMAIN node
    THEN [err |-> ErrKeySignature, val |-> Null]
    ELSE [err |-> NoErr,
          val |-> [cls |-> "CustomNode", uuid |-> node.Id, name |-> name,
                   content |-> _get_node_content(node, views),
                   node_type |-> _get_node_type(node),
                   concrete_type |-> _get_concrete_type(node),
                   custom_uuid |-> node.FunctionSignature,
                   group |-> NoGroup,
                   package |-> PackageDefault]]

\* builder.build(node, views)
build(builder, node, views) ==
    With(_node_id(node, views),
         LAMBDA id :
            IF id.err # NoErr THEN id
            ELSE With(get_node_name(views[id.val]),
                      LAMBDA name :
                         IF name.err # NoErr THEN name
                         ELSE CASE builder = DefaultNodeBuilder ->
                                      DefaultBuild(node, views, name.val)
                                [] builder = CodeNodeBuilder ->
                                      CodeBuild(node, views, name.val)
                                [] builder = CustomNodeBuilder ->
                                      CustomBuild(node, views, name.val)))

-----------------------------------------------------------------------------
(* content_builder.py: AnnotationBuilder and PackageBuilder *)

\* AnnotationBuilder._group_nodes: the nodes, in the order of the file's node
\* list, whose uuid is listed by the annotation; each is a reference, written
\* as the node's position in that list
_group_nodes(content, nodes) ==
    LET Listed(node) == node.uuid \in Range(Get(content, "Nodes", <<>>))
    IN  FilterIdx(nodes, Listed, 1)

\* AnnotationBuilder.build without the effect of Annotation.__post_init__
AnnotationBuild(content, nodes) ==
    With(get_node_id(content),
         LAMBDA id :
            IF id.err # NoErr THEN id
            ELSE IF "Title" \notin DOMAIN content
            THEN [err |-> ErrKeyTitle, val |-> Null]
            ELSE [err |-> NoErr,
                  val |-> [uuid |-> id.val, name |-> content.Title,
                           nodes |-> _group_nodes(content, nodes),
                           group |-> NoGroup, content |-> content]])

\* Annotation.__post_init__ of the annotation at position ref of the groups
\* list: every member node's group field is set to that annotation
PostInit(members, ref, nodes) ==
    [i \in DOMAIN nodes |->
        IF i \in Range(members) THEN [nodes[i] EXCEPT !.group = ref] ELSE nodes[i]]

\* PackageBuilder.is_builder_for
PackageIsBuilderFor(content) ==
    "ReferenceType" \in DOMAIN content /\ content.ReferenceType = "Package"

\* PackageBuilder.build; ref is the identity of the Package object
PackageBuild(content, ref) ==
    With(get_node_name(content),
         LAMBDA name :
            IF name.err # NoErr THEN name
            ELSE IF "Version" \notin DOMAIN content
            THEN [err |-> ErrKeyVersion, val |-> Null]
            ELSE [err |-> NoErr,
                  val |-> [name |-> name.val, version |-> content.Version,
                           ref |-> ref]])

\* PackageBuilder.get_node_ids
get_node_ids(content) == Get(content, "Nodes", <<>>)

-----------------------------------------------------------------------------
(* builder.py: parsing one document *)

ErrJson == "json.JSONDecodeError"

\* json.loads(file.getvalue()): the document, or JSONDecodeError
JsonLoads(file) ==
    IF file.wellformed THEN [err |-> NoErr, val |-> file.doc]
    ELSE [err |-> ErrJson, val |-> Null]

\* _get_file_content: None (none = TRUE), printed (logged = TRUE), for text
\* that is not JSON
_get_file_content(file) ==
    With(JsonLoads(file),
         LAMBDA r :
            IF r.err = ErrJson THEN [val |-> Null, none |-> TRUE, logged |-> TRUE]
            ELSE [val |-> r.val, none |-> FALSE, logged |-> FALSE])

_file_node_uuid(content) ==
    IF "Uuid" \notin DOMAIN content \/ content.Uuid = Null
    THEN [err |-> ErrNoUuid, val |-> Null]
    ELSE [err |-> NoErr, val |-> content.Uuid]

\* an update that keeps the value of a key the dict already has
Mut_DictUpdate(dict, ids, package) ==
    [id \in DOMAIN dict \cup ids |-> IF id \in DOMAIN dict THEN dict[id] ELSE package]

\* package_dict.update({node_id: package for node_id in ids})
DictUpdate(dict, ids, package) ==
    [id \in DOMAIN dict \cup ids |-> IF id \in ids THEN package ELSE dict[id]]

\* the loop of _get_packages from entry i on; dict maps node id to Package
RECURSIVE PackagesFrom(_, _, _)
PackagesFrom(entries, i, dict) ==
    IF i > Len(entries) THEN [err |-> NoErr, val |-> dict]
    ELSE IF ~PackageIsBuilderFor(entries[i]) THEN PackagesFrom(entries, i + 1, dict)
    ELSE With(PackageBuild(entries[i], i),
              LAMBDA package :
                 IF package.err # NoErr THEN package
                 ELSE PackagesFrom(entries, i + 1,
                          DictUpdate(dict, Range(get_node_ids(entries[i])),
                                     package.val)))

_get_packages(file_content) ==
    PackagesFrom(Get(file_content, "NodeLibraryDependencies", <<>>), 1, <<>>)

\* the loop of _get_node_view_dict from view i on: a later view replaces an
\* earlier one with the same Id; a view without Id raises
RECURSIVE ViewsFrom(_, _, _)
ViewsFrom(views, i, dict) ==
    IF i > Len(views) THEN [err |-> NoErr, val |-> dict]
    ELSE With(get_node_id(views[i]),
              LAMBDA id :
                 IF id.err # NoErr THEN id
                 ELSE ViewsFrom(views, i + 1, DictUpdate(dict, {id.val}, views[i])))

_get_node_view_dict(file_content) ==
    ViewsFrom(Get(Get(file_content, "View", <<>>), "NodeViews", <<>>), 1, <<>>)

\* _add_package
_add_package(node, packages) ==
    IF node.cls = "CustomNode" /\ node.uuid \in DOMAIN packages
    THEN [node EXCEPT !.package = packages[node.uuid]]
    ELSE node

\* the loop of _get_nodes from node record i on
RECURSIVE NodesFrom(_, _, _, _, _, _, _)
NodesFrom(records, i, views, packages, nodes, registry, found) ==
    IF i > Len(records) THEN [err |-> NoErr, val |-> nodes, registry |-> registry]
    ELSE With(node_builder(records[i], registry, found),
              LAMBDA builder :
                 IF builder.err # NoErr
                 THEN [err |-> builder.err, val |-> <<>>, registry |-> builder.registry]
                 ELSE With(build(builder.val, records[i], views),
                           LAMBDA content_node :
                              IF content_node.err # NoErr
                              THEN [err |-> content_node.err, val |-> <<>>,
                                    registry |-> builder.registry]
                              ELSE NodesFrom(records, i + 1, views, packages,
                                       Append(nodes,
                                              _add_package(content_node.val, packages)),
                                       builder.registry, found)))

\* _get_nodes(file_content), with the value of BUILDERS before and after
_get_nodes(file_content, registry, found) ==
    IF "View" \notin DOMAIN file_content
    THEN [err |-> NoErr, val |-> <<>>, registry |-> registry]
    ELSE With(_get_node_view_dict(file_content),
              LAMBDA view_dict :
                 IF view_dict.err # NoErr
                 THEN [err |-> view_dict.err, val |-> <<>>, registry |-> registry]
                 ELSE With(_get_packages(file_content),
                           LAMBDA package_dict :
                              IF package_dict.err # NoErr
                              THEN [err |-> package_dict.err, val |-> <<>>,
                                    registry |-> registry]
                              ELSE NodesFrom(Get(file_content, "Nodes", <<>>), 1,
                                             view_dict.val, package_dict.val, <<>>,
                                             registry, found)))

\* the list comprehension of _get_groups from annotation i on: groups are the
\* Annotation objects built so far, nodes the file's nodes as mutated by them
RECURSIVE GroupsFrom(_, _, _, _)
GroupsFrom(annotations, i, groups, nodes) ==
    IF i > Len(annotations) THEN [err |-> NoErr, val |-> groups, nodes |-> nodes]
    ELSE With(AnnotationBuild(annotations[i], nodes),
              LAMBDA grp :
                 IF grp.err # NoErr
                 THEN [err |-> grp.err, val |-> <<>>, nodes |-> nodes]
                 ELSE GroupsFrom(annotations, i + 1, Append(groups, grp.val),
                                 PostInit(grp.val.nodes, i, nodes)))

\* _get_groups(file_content, nodes): the groups and the nodes they changed
_get_groups(file_content, nodes) ==
    GroupsFrom(Get(file_content, "Annotations", <<>>), 1, <<>>, nodes)

_node_dependencies(content) == Get(content, "Dependencies", <<>>)

\* str.split("."), on a sequence of characters, from character i on with
\* the piece cur begun
RECURSIVE SplitDot(_, _, _)
SplitDot(text, i, cur) ==
    IF i > Len(text) THEN <<cur>>
    ELSE IF text[i] = "." THEN <<cur>> \o SplitDot(text, i + 1, <<>>)
    ELSE SplitDot(text, i + 1, Append(cur, text[i]))

\* _custom_categories
_custom_categories(content) ==
    IF "Category" \notin DOMAIN content \/ Len(content.Category) = 0 THEN <<>>
    ELSE SplitDot(content.Category, 1, <<>>)

-----------------------------------------------------------------------------
(* builder.py: building one file entity.  The entity's id (its class and the *)
(* file_id of its file) is the identity of the object.  A result has err     *)
(* (the exception raised), none (None was returned), val (the entity),       *)
(* logged (the failure was printed) and registry (BUILDERS after the call).  *)

Failed(e, registry) ==
    [err |-> e, none |-> FALSE, val |-> Null, logged |-> FALSE, registry |-> registry]

\* the fields DynamoFile declares, as _create_script and _create_custom_node
\* set them
FileFields(cls, file, uuid, name, content, groups) ==
    [cls |-> cls, id |-> [cls |-> cls, file |-> file.file_id],
     uuid |-> uuid, name |-> name, file |-> file.file_id,
     nodes |-> groups.nodes,
     dependencies |-> _node_dependencies(content),
     groups |-> groups.val]

\* the constructor call of _create_script / _create_custom_node: the keyword
\* arguments uuid, name and groups are evaluated in this order and each may
\* raise; Finish makes the entity from them
Construct(content, nodes, registry, Finish(_, _, _)) ==
    With(_file_node_uuid(content),
         LAMBDA uuid :
            IF uuid.err # NoErr THEN Failed(uuid.err, registry)
            ELSE With(get_node_name(content),
                      LAMBDA name :
                         IF name.err # NoErr THEN Failed(name.err, registry)
                         ELSE With(_get_groups(content, nodes),
                                   LAMBDA groups :
                                      IF groups.err # NoErr
                                      THEN Failed(groups.err, registry)
                                      ELSE [err |-> NoErr, none |-> FALSE,
                                            logged |-> FALSE, registry |-> registry,
                                            val |-> Finish(uuid.val, name.val, groups)])))

\* the body shared by _create_script and _create_custom_node: the content,
\* None when it is not JSON, then the nodes, then the constructor call
Create(file, registry, found, Finish(_, _, _, _)) ==
    With(_get_file_content(file),
         LAMBDA content :
            IF content.none
            THEN [err |-> NoErr, none |-> TRUE, val |-> Null,
                  logged |-> content.logged, registry |-> registry]
            ELSE With(_get_nodes(content.val, registry, found),
                      LAMBDA nodes :
                         IF nodes.err # NoErr THEN Failed(nodes.err, nodes.registry)
                         ELSE Construct(content.val, nodes.val, nodes.registry,
                                        LAMBDA u, n, g : Finish(content.val, u, n, g))))

\* _create_script
_create_script(file, registry, found) ==
    Create(file, registry, found,
           LAMBDA content, uuid, name, groups :
              FileFields("ScriptFile", file, uuid, name, content, groups))

\* _create_custom_node
_create_custom_node(file, registry, found) ==
    Create(file, registry, found,
           LAMBDA content, uuid, name, groups :
              [categories |-> _custom_categories(content)]
              @@ FileFields("CustomNodeFile", file, uuid, name, content, groups))

-----------------------------------------------------------------------------
(* models.py: DynamoFile, CustomNodeFile, ScriptFile *)

\* the dataclass __eq__ of DynamoFile: same class and same uuid (uuid is the
\* only field with compare=True)
FileEq(a, b) == a.cls = b.cls /\ a.uuid = b.uuid

\* node in lst
In(node, lst) == \E i \in DOMAIN lst : FileEq(lst[i], node)

\* add_used_in with the test of the dependency turned round: the files that
\* self depends on
Mut_AddUsedIn_Reversed(self, own, nodes) ==
    LET Dependent(node) == node.uuid \in Range(self.dependencies)
        NotYet(node) == ~In(node, own)
    IN  own \o Filter(Filter(nodes, Dependent, 1), NotYet, 1)

\* add_used_in without the test "node not in self.used_in"
Mut_AddUsedIn_NoCheck(self, own, nodes) ==
    LET Dependent(node) == self.uuid \in Range(node.dependencies)
    IN  own \o Filter(nodes, Dependent, 1)

\* CustomNodeFile.add_used_in(nodes): the new value of self.used_in, own
\* being the old one
CustomAddUsedIn(self, own, nodes) ==
    LET Dependent(node) == self.uuid \in Range(node.dependencies)
        NotYet(node) == ~In(node, own)
    IN  own \o Filter(Filter(nodes, Dependent, 1), NotYet, 1)

\* ScriptFile.add_used_in(nodes): pass; used, the used_in lists of the custom
\* node files, stays as it is
ScriptAddUsedIn(self, nodes, used) == used

\* the order of str on the document names of the model
NameOrd ==
    [n \in {"A", "B", "C", "D"} |->
        CASE n = "A" -> 1 [] n = "B" -> 2 [] n = "C" -> 3 [] n = "D" -> 4]

\* lst with x put behind the last element whose name is not greater
InsertByName(lst, x) ==
    LET NotAfter(e) == NameOrd[e.name] <= NameOrd[x.name]
        After(e) == NameOrd[e.name] > NameOrd[x.name]
    IN  Filter(lst, NotAfter, 1) \o <<x>> \o Filter(lst, After, 1)

\* sorted(lst, key=name): a stable sort
RECURSIVE SortedByName(_)
SortedByName(lst) ==
    IF Len(lst) = 0 THEN <<>>
    ELSE InsertByName(SortedByName(SubSeq(lst, 1, Len(lst) - 1)), lst[Len(lst)])

\* CustomNodeFile.node_used_in
CustomNodeUsedIn(own) == SortedByName(own)

\* node_used_in of a script that answers like a custom node file would: the
\* files that list the script's uuid
Mut_ScriptNodeUsedIn(self) ==
    LET Dependent(node) == self.uuid \in Range(node.dependencies)
    IN  Filter(scripts \o library, Dependent, 1)

\* ScriptFile.node_used_in
ScriptNodeUsedIn(self) == <<>>

-----------------------------------------------------------------------------
(* service.py *)

DYF == <<"d", "y", "f">>
DYN == <<"d", "y", "n">>

_is_custom_file(path) == endswith(lower(path.name), DYF)

_is_script_file(path) == endswith(lower(path.name), DYN)

_is_dynamo_file(file) == _is_script_file(file) \/ _is_custom_file(file)

_get_node_files(paths) == Filter(paths, _is_custom_file, 1)

_get_script_files(paths) == Filter(paths, _is_script_file, 1)

\* the first statement of script_n_custom_nodes
DynamoFiles(paths) == Filter(paths, _is_dynamo_file, 1)

\* the keys of _node_dict in insertion order: the uuids by first occurrence
RECURSIVE KeysFrom(_, _)
KeysFrom(nodes, i) ==
    IF i > Len(nodes) THEN <<>>
    ELSE (IF \A j \in 1..(i - 1) : nodes[j].uuid # nodes[i].uuid
          THEN <<nodes[i].uuid>> ELSE <<>>) \o KeysFrom(nodes, i + 1)

\* _node_dict: a dict is its keys in insertion order and its values by key
_node_dict(nodes) ==
    [keys |-> KeysFrom(nodes, 1),
     at |-> [u \in {nodes[i].uuid : i \in DOMAIN nodes} |->
                LET Same(n) == n.uuid = u IN Filter(nodes, Same, 1)]]

\* _unique_custom that keeps the first file of every uuid
Mut_unique_custom(custom_dict) ==
    [keys |-> custom_dict.keys,
     at |-> [u \in Range(custom_dict.keys) |-> custom_dict.at[u][1]]]

\* _unique_custom
_unique_custom(custom_dict) ==
    LET Single(u) == Len(custom_dict.at[u]) = 1
    IN  With(Filter(custom_dict.keys, Single, 1),
             LAMBDA keys :
                [keys |-> keys, at |-> [u \in Range(keys) |-> custom_dict.at[u][1]]])

\* dict.values()
Values(dict) == [i \in DOMAIN dict.keys |-> dict.at[dict.keys[i]]]

\* _get_custom_node_dict after the parsing: _node_dict, _print_not_unique_nodes
\* (which prints nothing) and _unique_custom
_get_custom_node_dict(nodes) == _unique_custom(_node_dict(nodes))

\* the first loop of add_used_in from custom node i on; used maps the id of
\* a CustomNodeFile object to its used_in list
RECURSIVE LinkFrom(_, _, _, _)
LinkFrom(custom_nodes, i, all_nodes, used) ==
    IF i > Len(custom_nodes) THEN used
    ELSE LinkFrom(custom_nodes, i + 1, all_nodes,
             [used EXCEPT ![custom_nodes[i].id] =
                 CustomAddUsedIn(custom_nodes[i], used[custom_nodes[i].id], all_nodes)])

\* the second loop of add_used_in from script i on
RECURSIVE LinkScriptsFrom(_, _, _, _)
LinkScriptsFrom(script_nodes, i, all_nodes, used) ==
    IF i > Len(script_nodes) THEN used
    ELSE LinkScriptsFrom(script_nodes, i + 1, all_nodes,
             ScriptAddUsedIn(script_nodes[i], all_nodes, used))

\* add_used_in(scripts, custom_nodes): the used_in lists after the call
add_used_in(script_nodes, custom_nodes, used) ==
    LinkScriptsFrom(script_nodes, 1, script_nodes \o custom_nodes,
        LinkFrom(custom_nodes, 1, script_nodes \o custom_nodes, used))

\* source.node_used_in()
node_used_in(source, used) ==
    IF source.cls = "ScriptFile" THEN ScriptNodeUsedIn(source)
    ELSE CustomNodeUsedIn(used[source.id])

\* the files of lib named by the dependencies from dependency i on
RECURSIVE InDependencyOrder(_, _, _)
InDependencyOrder(deps, lib, i) ==
    IF i > Len(deps) THEN <<>>
    ELSE LET Named(node) == node.uuid = deps[i]
         IN  Filter(lib, Named, 1) \o InDependencyOrder(deps, lib, i + 1)

\* dependency_of that walks the dependency list instead of the library
Mut_dependency_of(source, lib) == InDependencyOrder(source.dependencies, lib, 1)

\* dependency_of
dependency_of(source, lib) ==
    LET Listed(node) == node.uuid \in Range(source.dependencies)
    IN  Filter(lib, Listed, 1)

\* graph_elements
graph_elements(source, lib, used) ==
    [node |-> source, dependencies |-> dependency_of(source, lib),
     used_in |-> node_used_in(source, used)]

-----------------------------------------------------------------------------
(* The batch operation service.script_n_custom_nodes, one step per file *)

\* the files the two parse loops run over
CustomInput == _get_node_files(DynamoFiles(files))

ScriptInput == DynamoFiles(files)

\* no projection made yet
NoProj == [node |-> [cls |-> "None"], dependencies |-> <<>>, used_in |-> <<>>]

\* files = [file for file in files if _is_dynamo_file(file)]
Start ==
    /\ pc = "start"
    /\ pc' = "custom"
    /\ idx' = 1
    /\ UNCHANGED <<files, discovered, BUILDERS, parsed, library, scripts, used_in,
                   log, reads, error, linkRuns, proj>>

\* what one iteration of a parse loop does besides keeping the entity
Parsed(file, r) ==
    /\ reads' = [reads EXCEPT ![file.file_id] = @ + 1]
    /\ BUILDERS' = r.registry
    /\ log' = IF r.logged THEN Append(log, file.file_id) ELSE log
    /\ error' = r.err
    /\ pc' = IF r.err # NoErr THEN "raised" ELSE pc
    /\ idx' = IF r.err # NoErr THEN idx ELSE idx + 1

\* one iteration of the list comprehension of get_custom_file_nodes
ParseCustom ==
    /\ pc = "custom"
    /\ idx <= Len(CustomInput)
    /\ \E file \in {CustomInput[idx]} :
       \E r \in {_create_custom_node(file, BUILDERS, discovered)} :
          /\ Parsed(file, r)
          /\ IF r.err # NoErr \/ r.none
             THEN UNCHANGED <<parsed, used_in>>
             ELSE /\ parsed' = Append(parsed, r.val)
                  /\ used_in' = [id \in DOMAIN used_in \cup {r.val.id} |->
                                    IF id = r.val.id THEN <<>> ELSE used_in[id]]
    /\ UNCHANGED <<files, discovered, library, scripts, linkRuns, proj>>

\* the rest of _get_custom_node_dict and custom_dict.values()
Unique ==
    /\ pc = "custom"
    /\ idx > Len(CustomInput)
    /\ library' = Values(_get_custom_node_dict(parsed))
    /\ pc' = "scripts"
    /\ idx' = 1
    /\ UNCHANGED <<files, discovered, BUILDERS, parsed, scripts, used_in, log, reads,
                   error, linkRuns, proj>>

\* one iteration of the list comprehension of get_script_nodes
ParseScript ==
    /\ pc = "scripts"
    /\ idx <= Len(ScriptInput)
    /\ \E file \in {ScriptInput[idx]} :
       \E r \in {_create_script(file, BUILDERS, discovered)} :
          /\ Parsed(file, r)
          /\ scripts' = IF r.err # NoErr \/ r.none THEN scripts
                        ELSE Append(scripts, r.val)
    /\ UNCHANGED <<files, discovered, parsed, library, used_in, linkRuns, proj>>

\* the linking placed before the loop of get_script_nodes
Mut_LinkBeforeScripts ==
    /\ pc = "scripts"
    /\ idx = 1
    /\ used_in' = add_used_in(scripts, library, used_in)
    /\ linkRuns' = linkRuns + 1
    /\ pc' = "done"
    /\ UNCHANGED <<files, discovered, BUILDERS, idx, parsed, library, scripts, log,
                   reads, error, proj>>

\* add_used_in(scripts, custom_dict.values()) and the return
Link ==
    /\ pc = "scripts"
    /\ idx > Len(ScriptInput)
    /\ used_in' = add_used_in(scripts, library, used_in)
    /\ linkRuns' = linkRuns + 1
    /\ pc' = "done"
    /\ UNCHANGED <<files, discovered, BUILDERS, idx, parsed, library, scripts, log,
                   reads, error, proj>>

\* service.graph_elements(source, library) on a returned file
GraphElements ==
    /\ pc = "done"
    /\ \E source \in Range(scripts) \cup Range(library) :
          proj' = graph_elements(source, library, used_in)
    /\ UNCHANGED <<files, discovered, BUILDERS, pc, idx, parsed, library, scripts,
                   used_in, log, reads, error, linkRuns>>

Next == Start \/ ParseCustom \/ Unique \/ ParseScript \/ Link \/ GraphElements

-----------------------------------------------------------------------------
(* Inputs *)

MaxFiles == 3

ScriptName == <<"s", ".", "d", "y", "n">>
CustomName == <<"c", ".", "D", "Y", "F">>
OtherName == <<"r", ".", "t", "x", "t">>

\* a DynFile (models.py): name, file_id, type and the bytes of getvalue(),
\* given as whether they are JSON text and the document they encode
File(name, i, wellformed, doc) ==
    [name |-> name, file_id |-> i, type |-> "application/octet-stream",
     wellformed |-> wellformed, doc |-> doc]

Garbage == [Garbage |-> "{"]

Uuids == {"u1", "u2"}

NameOfUuid(u) == IF u = "u1" THEN "B" ELSE "A"

\* a minimal document: no View section
PlainDoc(u, deps) == [Uuid |-> u, Name |-> NameOfUuid(u), Dependencies |-> deps]

BatchDeps == {<<>>, <<"u1">>, <<"u2">>}

\* the files that may stand at position i of a batch of well-formed and
\* garbled files
BatchChoice(i) ==
    {File(OtherName, i, TRUE, PlainDoc("u1", <<>>))}
    \cup {File(n, i, FALSE, Garbage) : n \in {ScriptName, CustomName}}
    \cup {File(n, i, TRUE, PlainDoc(u, d)) :
             n \in {ScriptName, CustomName}, u \in Uuids, d \in BatchDeps}

\* the uuid of the document at position i when uuids differ by position
UuidAt(i) ==
    CASE i = 1 -> "u1" [] i = 2 -> "u2" [] i = 3 -> "u3" [] i = 4 -> "u4"
      [] OTHER -> "u5"

\* n times the character c
Chars(c, n) == [i \in 1..n |-> c]

\* a GUID: 8-4-4-4-12 hexadecimal digits
GuidText ==
    Chars("0", 8) \o <<"-">> \o Chars("a", 4) \o <<"-">> \o Chars("4", 4) \o <<"-">>
    \o Chars("B", 4) \o <<"-">> \o Chars("f", 12)

\* node records of the three kinds, and a view record
PlainRec(id) ==
    [Id |-> id, ConcreteType |-> "Dynamo.Graph.Nodes.ZeroTouch.DSFunction, DynamoCore",
     NodeType |-> "FunctionNode"]

CodeRec(id) ==
    [Id |-> id, ConcreteType |-> PYTHON_CONCRETE, NodeType |-> "PythonScriptNode",
     Code |-> "OUT = 1"]

CustomRec(id) ==
    [Id |-> id, ConcreteType |-> CUSTOM_CONCRETE, NodeType |-> "FunctionNode",
     FunctionType |-> "Graph", FunctionSignature |-> GuidText]

ViewRec(id) == [Id |-> id, Name |-> "N"]

\* a document with a View section
NodeDoc(u, records, views, annotations) ==
    [Uuid |-> u, Name |-> "A", Dependencies |-> <<>>, Nodes |-> records,
     View |-> [NodeViews |-> views], Annotations |-> annotations]

GoodDoc(u) ==
    NodeDoc(u, <<PlainRec("n1"), CodeRec("n2")>>, <<ViewRec("n1"), ViewRec("n2")>>, <<>>)

\* d without the key k
Without(d, k) == [x \in DOMAIN d \ {k} |-> d[x]]

\* documents that are JSON and lack something the builder requires: the
\* top-level Uuid or Name, the Name of a view, the Code of a code node, the
\* view of a node
DefectDocs(u) ==
    {Without(GoodDoc(u), "Uuid"),
     Without(GoodDoc(u), "Name"),
     NodeDoc(u, <<PlainRec("n1")>>, <<Without(ViewRec("n1"), "Name")>>, <<>>),
     NodeDoc(u, <<Without(CodeRec("n1"), "Code")>>, <<ViewRec("n1")>>, <<>>),
     NodeDoc(u, <<PlainRec("n1"), PlainRec("n2")>>, <<ViewRec("n1")>>, <<>>)}

\* the files that may stand at position i of a batch with defective documents
FailChoice(i) ==
    {File(n, i, TRUE, d) :
        n \in {ScriptName, CustomName}, d \in {GoodDoc(UuidAt(i))} \cup DefectDocs(UuidAt(i))}
    \cup {File(n, i, FALSE, Garbage) : n \in {ScriptName, CustomName}}

\* documents for the classification of node records
RegDocs(u) ==
    {PlainDoc(u, <<>>),
     NodeDoc(u, <<>>, <<>>, <<>>),
     NodeDoc(u, <<PlainRec("n1")>>, <<ViewRec("n1")>>, <<>>),
     NodeDoc(u, <<CodeRec("n1")>>, <<ViewRec("n1")>>, <<>>),
     NodeDoc(u, <<CustomRec("n1")>>, <<ViewRec("n1")>>, <<>>)}

RegChoice(i) ==
    {File(n, i, TRUE, d) : n \in {ScriptName, CustomName}, d \in RegDocs(UuidAt(i))}

\* an Annotations entry
GroupRec(id, members) == [Id |-> id, Title |-> "G", Nodes |-> members]

\* the Annotations arrays of the model: none, one group, two disjoint groups,
\* two groups that share node n2, a group that lists an unknown node
GroupLists ==
    {<<>>,
     <<GroupRec("g1", <<"n1">>)>>,
     <<GroupRec("g1", <<"n1">>), GroupRec("g2", <<"n2">>)>>,
     <<GroupRec("g1", <<"n1", "n2">>), GroupRec("g2", <<"n2", "n3">>)>>,
     <<GroupRec("g1", <<"n9", "n3">>)>>}

GroupDocs(u) ==
    {NodeDoc(u, <<PlainRec("n1"), CodeRec("n2"), PlainRec("n3")>>,
             <<ViewRec("n1"), ViewRec("n2"), ViewRec("n3")>>, a) : a \in GroupLists}

GroupChoice(i) ==
    {File(n, i, TRUE, d) : n \in {ScriptName, CustomName}, d \in GroupDocs(UuidAt(i))}

\* batches of at most this many files for the properties of one document
MaxDocs == 2

\* documents without a View section: the minimal one, one with node records,
\* one with node records and an annotation, one with an annotation only
NoViewDocs(u) ==
    {PlainDoc(u, <<>>),
     Without(NodeDoc(u, <<PlainRec("n1")>>, <<>>, <<>>), "View"),
     Without(NodeDoc(u, <<PlainRec("n1")>>, <<>>, <<GroupRec("g1", <<"n1">>)>>), "View"),
     Without(NodeDoc(u, <<>>, <<>>, <<GroupRec("g1", <<>>)>>), "View")}

NoViewChoice(i) ==
    {File(n, i, TRUE, d) : n \in {ScriptName, CustomName}, d \in NoViewDocs(UuidAt(i))}

\* a NodeLibraryDependencies entry
PackageRec(type, name, ids) ==
    [ReferenceType |-> type, Name |-> name, Version |-> "1.0", Nodes |-> ids]

\* the NodeLibraryDependencies arrays of the model: none, one package for
\* both custom nodes, two packages that both list n1, a package and an entry
\* of another type behind it, a package that lists a node that is not custom
PackageLists ==
    {<<>>,
     <<PackageRec("Package", "P1", <<"n1", "n2">>)>>,
     <<PackageRec("Package", "P1", <<"n1">>), PackageRec("Package", "P2", <<"n1", "n2">>)>>,
     <<PackageRec("Package", "P1", <<"n1", "n2">>), PackageRec("ZeroTouch", "Z", <<"n1">>)>>,
     <<PackageRec("Package", "P2", <<"n3", "n2">>), PackageRec("Package", "P1", <<"n9">>)>>}

\* documents with two custom nodes, a plain node and NodeLibraryDependencies
PackageDocs(u) ==
    {NodeDoc(u, <<CustomRec("n1"), CustomRec("n2"), PlainRec("n3")>>,
             <<ViewRec("n1"), ViewRec("n2"), ViewRec("n3")>>, <<>>)
        @@ [NodeLibraryDependencies |-> l] : l \in PackageLists}
    \cup {NodeDoc(u, <<CustomRec("n1")>>, <<ViewRec("n1")>>, <<>>)}

PackageChoice(i) ==
    {File(n, i, TRUE, d) : n \in {ScriptName, CustomName}, d \in PackageDocs(UuidAt(i))}

\* r with the value v under the key k
WithKey(r, k, v) == [x \in DOMAIN r \cup {k} |-> IF x = k THEN v ELSE r[x]]

\* signatures that are no GUID of hexadecimal digits: one with letters beyond
\* f, one with a character behind the GUID, one that is too short
LetterText ==
    Chars("z", 8) \o <<"-">> \o Chars("q", 4) \o <<"-">> \o Chars("4", 4) \o <<"-">>
    \o Chars("X", 4) \o <<"-">> \o Chars("f", 12)

LongText == GuidText \o <<"x">>

ShortText == Chars("0", 8)

\* node records for the classification: the three kinds as Dynamo writes
\* them, records that lack a discriminator field, custom records with each
\* of the signatures, without signature, and with another FunctionType
ClassifyRecs ==
    {PlainRec("n1"), CodeRec("n1"), CustomRec("n1"),
     Without(PlainRec("n1"), "NodeType"),
     Without(PlainRec("n1"), "ConcreteType"),
     [Id |-> "n1"],
     WithKey(CustomRec("n1"), "FunctionSignature", LetterText),
     WithKey(CustomRec("n1"), "FunctionSignature", LongText),
     WithKey(CustomRec("n1"), "FunctionSignature", ShortText),
     Without(CustomRec("n1"), "FunctionSignature"),
     WithKey(CustomRec("n1"), "FunctionType", "Method")}

\* documents of one node record with its view
ClassifyDocs(u) == {NodeDoc(u, <<r>>, <<ViewRec("n1")>>, <<>>) : r \in ClassifyRecs}

ClassifyChoice(i) ==
    {File(n, i, TRUE, d) : n \in {ScriptName, CustomName}, d \in ClassifyDocs(UuidAt(i))}

\* documents whose Nodes array repeats an Id, whose NodeViews array repeats
\* an Id, and with distinct Ids
RepeatDocs(u) ==
    {NodeDoc(u, <<PlainRec("n1"), CodeRec("n1")>>, <<ViewRec("n1")>>, <<>>),
     NodeDoc(u, <<PlainRec("n1"), PlainRec("n1")>>, <<ViewRec("n1")>>, <<>>),
     NodeDoc(u, <<PlainRec("n1")>>, <<ViewRec("n1"), ViewRec("n1")>>, <<>>),
     NodeDoc(u, <<PlainRec("n1"), CodeRec("n2")>>, <<ViewRec("n1"), ViewRec("n2")>>, <<>>)}

RepeatChoice(i) ==
    {File(n, i, TRUE, d) : n \in {ScriptName, CustomName}, d \in RepeatDocs(UuidAt(i))}

\* the files that may stand at position i of a batch of the given kind
Choice(kind, i) ==
    CASE kind = "batch" -> BatchChoice(i)
      [] kind = "fail" -> FailChoice(i)
      [] kind = "reg" -> RegChoice(i)
      [] kind = "group" -> GroupChoice(i)
      [] kind = "noview" -> NoViewChoice(i)
      [] kind = "package" -> PackageChoice(i)
      [] kind = "classify" -> ClassifyChoice(i)
      [] kind = "repeat" -> RepeatChoice(i)

\* the sequences of n files, file i drawn from Choice(kind, i)
RECURSIVE BatchesOf(_, _)
BatchesOf(n, kind) ==
    IF n = 0 THEN {<<>>}
    ELSE {Append(b, f) : b \in BatchesOf(n - 1, kind), f \in Choice(kind, n)}

\* content_builder's globals() as the module defines them
ActualBuilders == <<DefaultNodeBuilder, CodeNodeBuilder, CustomNodeBuilder>>

\* the state before script_n_custom_nodes(fs) with the builder classes found
InitWith(fs, found) ==
    /\ files = fs
    /\ discovered = found
    /\ BUILDERS = <<>>
    /\ pc = "start"
    /\ idx = 1
    /\ parsed = <<>>
    /\ library = <<>>
    /\ scripts = <<>>
    /\ used_in = <<>>
    /\ log = <<>>
    /\ reads = [i \in DOMAIN fs |-> 0]
    /\ error = NoErr
    /\ linkRuns = 0
    /\ proj = NoProj

Init ==
    \E n \in 1..MaxFiles : \E fs \in BatchesOf(n, "batch") :
        InitWith(fs, ActualBuilders)

Spec == Init /\ [][Next]_vars

\* batches in which a document lacks something the builder requires
InitFail ==
    \E n \in 1..MaxFiles : \E fs \in BatchesOf(n, "fail") :
        InitWith(fs, ActualBuilders)

SpecFail == InitFail /\ [][Next]_vars

\* the lists of builder classes globals() may hold: the three classes in
\* every order, the list without the default builder, the list with a
\* second name bound to the default builder
Discoveries ==
    {<<DefaultNodeBuilder, CodeNodeBuilder, CustomNodeBuilder>>,
     <<DefaultNodeBuilder, CustomNodeBuilder, CodeNodeBuilder>>,
     <<CodeNodeBuilder, DefaultNodeBuilder, CustomNodeBuilder>>,
     <<CodeNodeBuilder, CustomNodeBuilder, DefaultNodeBuilder>>,
     <<CustomNodeBuilder, DefaultNodeBuilder, CodeNodeBuilder>>,
     <<CustomNodeBuilder, CodeNodeBuilder, DefaultNodeBuilder>>,
     <<CodeNodeBuilder, CustomNodeBuilder>>,
     <<DefaultNodeBuilder, CodeNodeBuilder, CustomNodeBuilder, DefaultNodeBuilder>>}

\* batches parsed with any of these lists of builder classes
InitReg ==
    \E n \in 1..MaxFiles : \E fs \in BatchesOf(n, "reg") : \E found \in Discoveries :
        InitWith(fs, found)

SpecReg == InitReg /\ [][Next]_vars

\* batches of documents with annotations
InitGroup ==
    \E n \in 1..MaxFiles : \E fs \in BatchesOf(n, "group") :
        InitWith(fs, ActualBuilders)

SpecGroup == InitGroup /\ [][Next]_vars

\* batches of documents without a View section
InitNoView ==
    \E n \in 1..MaxDocs : \E fs \in BatchesOf(n, "noview") :
        InitWith(fs, ActualBuilders)

SpecNoView == InitNoView /\ [][Next]_vars

\* batches of documents with NodeLibraryDependencies
InitPackage ==
    \E n \in 1..MaxDocs : \E fs \in BatchesOf(n, "package") :
        InitWith(fs, ActualBuilders)

SpecPackage == InitPackage /\ [][Next]_vars

\* batches of documents of one node record each
InitClassify ==
    \E n \in 1..MaxDocs : \E fs \in BatchesOf(n, "classify") :
        InitWith(fs, ActualBuilders)

SpecClassify == InitClassify /\ [][Next]_vars

\* batches of documents that repeat an Id
InitRepeat ==
    \E n \in 1..MaxDocs : \E fs \in BatchesOf(n, "repeat") :
        InitWith(fs, ActualBuilders)

SpecRepeat == InitRepeat /\ [][Next]_vars

-----------------------------------------------------------------------------
(* The linker and the projection called on any set of parsed files *)

MaxLinked == 3
MaxLinkRuns == 2

\* the dependency lists of the model: none, one uuid, two uuids in the
\* order opposite to the library's, a uuid twice around a uuid of no file
LinkDeps == {<<>>, <<"u1">>, <<"u2", "u1">>, <<"u1", "u3", "u1">>}

\* the files parsed for position i: scripts and custom node files
LinkChoice(i) ==
    {File(ScriptName, i, TRUE, PlainDoc("u1", d)) : d \in LinkDeps}
    \cup {File(CustomName, i, TRUE, PlainDoc(u, d)) : u \in Uuids, d \in LinkDeps}

\* the sequences of n such files
RECURSIVE LinkFilesOf(_)
LinkFilesOf(n) ==
    IF n = 0 THEN {<<>>}
    ELSE {Append(b, f) : b \in LinkFilesOf(n - 1), f \in LinkChoice(n)}

\* builder.get_script_nodes / get_custom_file_nodes on files that parse
ScriptsOf(fs) ==
    [i \in DOMAIN _get_script_files(fs) |->
        _create_script(_get_script_files(fs)[i], <<>>, ActualBuilders).val]

CustomsOf(fs) ==
    [i \in DOMAIN _get_node_files(fs) |->
        _create_custom_node(_get_node_files(fs)[i], <<>>, ActualBuilders).val]

\* the state in which scripts and custom node files have been parsed and
\* nothing is linked
InitLink ==
    \E n \in 1..MaxLinked : \E fs \in LinkFilesOf(n) :
        /\ files = fs
        /\ discovered = ActualBuilders
        /\ BUILDERS = <<>>
        /\ pc = "done"
        /\ idx = 1
        /\ parsed = CustomsOf(fs)
        /\ library = CustomsOf(fs)
        /\ scripts = ScriptsOf(fs)
        /\ used_in = [id \in {[cls |-> "CustomNodeFile", file |-> f.file_id] :
                                 f \in Range(_get_node_files(fs))} |-> <<>>]
        /\ log = <<>>
        /\ reads = [i \in DOMAIN fs |-> 1]
        /\ error = NoErr
        /\ linkRuns = 0
        /\ proj = NoProj

\* service.add_used_in(scripts, library), called once more
AddUsedIn ==
    /\ pc = "done"
    /\ linkRuns < MaxLinkRuns
    /\ used_in' = add_used_in(scripts, library, used_in)
    /\ linkRuns' = linkRuns + 1
    /\ UNCHANGED <<files, discovered, BUILDERS, pc, idx, parsed, library, scripts,
                   log, reads, error, proj>>

NextLink == AddUsedIn \/ GraphElements

SpecLink == InitLink /\ [][NextLink]_vars

-----------------------------------------------------------------------------
(* Properties *)

\* the object F is an element of lst
Appears(F, lst) == \E i \in DOMAIN lst : lst[i].id = F.id

NoEntryTwice ==
    \A id \in DOMAIN used_in : \A i, j \in DOMAIN used_in[id] :
        used_in[id][i].id = used_in[id][j].id => i = j

\* C2: once the linker has run on a set of parsed files, a further run leaves
\* every used_in list as it is, and no list ever holds an entry twice
C2_IdempotentLinking ==
    [](NoEntryTwice) /\ [][linkRuns >= 1 => used_in' = used_in]_vars

\* C2 witness: the linker has run twice and some used_in list has two entries
C2_Witness ==
    /\ linkRuns >= 2
    /\ \E id \in DOMAIN used_in : Len(used_in[id]) >= 2

\* the files of the batch that are not JSON
BadFiles == {i \in DOMAIN files : ~files[i].wellformed}

\* the batch holds .dyn/.dyf files only, the well-formed ones with pairwise
\* distinct uuids
DistinctDynamoBatch ==
    /\ \A i \in DOMAIN files : _is_dynamo_file(files[i])
    /\ \A i, j \in DOMAIN files \ BadFiles :
          files[i].doc.Uuid = files[j].doc.Uuid => i = j

\* C3 as stated: a batch of N .dyn/.dyf files with pairwise distinct uuids, k
\* of them not JSON, yields N-k file entities (scripts plus custom node
\* files), one recorded failure per bad file, and no error
C3_MalformedResilience ==
    DistinctDynamoBatch =>
        /\ error = NoErr
        /\ pc = "done" =>
              /\ Len(scripts) + Len(library) = Len(files) - Cardinality(BadFiles)
              /\ Len(log) = Cardinality(BadFiles)

DotDyn == <<".">> \o DYN
DotDyf == <<".">> \o DYF

\* the entities the batch operation returns that were built from file i
EntitiesOf(i) == {e \in Range(scripts) \cup Range(library) : e.file = i}

\* C5 as stated: in the result every ScriptFile was built from a file named
\* *.dyn and every CustomNodeFile from a file named *.dyf (case-insensitive),
\* each input file yields at most one entity, a file of another suffix none
C5_KindBySuffix ==
    pc = "done" =>
        /\ \A e \in Range(scripts) : endswith(lower(files[e.file].name), DotDyn)
        /\ \A e \in Range(library) : endswith(lower(files[e.file].name), DotDyf)
        /\ \A i \in DOMAIN files : Cardinality(EntitiesOf(i)) <= 1
        /\ \A i \in DOMAIN files :
              ~_is_dynamo_file(files[i]) => EntitiesOf(i) = {}

\* the positions of the library whose file the source lists as a dependency
ListedIn(S) == {i \in DOMAIN library : library[i].uuid \in Range(S.dependencies)}

\* C6: graph_elements(S, L).dependencies is the subsequence of L, in L's
\* order, of the files whose uuid is in S.dependencies; the order and the
\* multiplicity of the uuids in S.dependencies have no effect
C6_ProjectionOfDependencies ==
    proj.node.cls # "None" =>
        /\ Len(proj.dependencies) = Cardinality(ListedIn(proj.node))
        /\ \A i \in ListedIn(proj.node) :
              proj.dependencies[Cardinality({j \in ListedIn(proj.node) : j <= i})]
                  = library[i]
        /\ \A T \in Range(scripts) \cup Range(library) :
              Range(T.dependencies) = Range(proj.node.dependencies)
                  => dependency_of(T, library) = proj.dependencies

\* C6 witness: the source lists u2 before u1, the library holds the file of
\* u1 before the file of u2, and the projection has both in the library's order
C6_Witness ==
    /\ proj.node.cls # "None"
    /\ proj.node.dependencies = <<"u2", "u1">>
    /\ Len(proj.dependencies) = 2
    /\ proj.dependencies[1].uuid = "u1"
    /\ proj.dependencies[2].uuid = "u2"

\* C7: a ScriptFile's node_used_in() is empty in every state, it has no
\* used_in list, and its projection has no users
C7_ScriptNeverUsed ==
    /\ \A s \in Range(scripts) :
          node_used_in(s, used_in) = <<>> /\ s.id \notin DOMAIN used_in
    /\ proj.node.cls = "ScriptFile" => proj.used_in = <<>>

\* C7 witness: the linker has run twice over a script that lists its own
\* uuid, which a custom node file lists too
C7_Witness ==
    /\ linkRuns >= 2
    /\ \E s \in Range(scripts) :
          /\ s.uuid \in Range(s.dependencies)
          /\ \E c \in Range(library) : s.uuid \in Range(c.dependencies)
          /\ proj.node = s

\* the document has everything the builder requires: Uuid and Name, for each
\* node record a view with a Name, and Code on each code node
Sound(doc) ==
    /\ {"Uuid", "Name"} \subseteq DOMAIN doc
    /\ "View" \in DOMAIN doc =>
          \A i \in DOMAIN doc.Nodes :
             /\ \E j \in DOMAIN doc.View.NodeViews :
                   /\ doc.View.NodeViews[j].Id = doc.Nodes[i].Id
                   /\ "Name" \in DOMAIN doc.View.NodeViews[j]
             /\ is_builder_for(CodeNodeBuilder, doc.Nodes[i]) = "T"
                   => "Code" \in DOMAIN doc.Nodes[i]

\* C4 as stated: a file that is JSON and lacks a required field, or has a
\* node record without a view, is skipped; no error reaches the caller of the
\* batch operation and every file that has all of it is parsed and returned
C4_DefectiveFileIsSkipped ==
    /\ error = NoErr
    /\ pc = "done" =>
          \A i \in DOMAIN files :
             files[i].wellformed /\ Sound(files[i].doc) => EntitiesOf(i) # {}

\* the file entities built so far
Entities == Range(scripts) \cup Range(parsed)

\* C8 as stated: in every file entity, every node in an Annotation's member
\* list has its group field equal to that Annotation, and every node in no
\* member list has group None
C8_GroupBackReference ==
    \A e \in Entities :
        /\ \A g \in DOMAIN e.groups : \A m \in Range(e.groups[g].nodes) :
              e.nodes[m].group = g
        /\ \A n \in DOMAIN e.nodes :
              (\A g \in DOMAIN e.groups : n \notin Range(e.groups[g].nodes))
                  => e.nodes[n].group = NoGroup

\* the classes found hold no default builder or more than one
Misconfigured == Len(Filter(discovered, _is_default, 1)) # 1

\* C9 as stated: while the registry is misconfigured no file entity is ever
\* constructed
C9_NoEntityWhenMisconfigured == Misconfigured => Entities = {}

\* the builders of a specific rule
SpecificBuilders == {CodeNodeBuilder, CustomNodeBuilder}

\* the class of node each builder builds
ClassBuiltBy(builder) ==
    CASE builder = CodeNodeBuilder -> "PythonCodeNode"
      [] builder = CustomNodeBuilder -> "CustomNode"
      [] builder = DefaultNodeBuilder -> "DynamoNode"

\* C10: the default builder is the last of the registry and the only default
\* one in it, and every node built from a record that satisfies a specific
\* rule and the fallback rule was built by the specific builder
C10_SpecificBeforeFallback ==
    /\ BUILDERS # <<>> =>
          \A i \in DOMAIN BUILDERS : _is_default(BUILDERS[i]) <=> i = Len(BUILDERS)
    /\ \A e \in Entities : \A n \in DOMAIN e.nodes : \A b \in SpecificBuilders :
          /\ is_builder_for(b, e.nodes[n].content.Node) = "T"
          /\ is_builder_for(DefaultNodeBuilder, e.nodes[n].content.Node) = "T"
          => e.nodes[n].cls = ClassBuiltBy(b)

\* C10 witness: the default builder was discovered first, and a record that
\* satisfies the code rule and the fallback rule was built as a code node
C10_Witness ==
    /\ discovered[1] = DefaultNodeBuilder
    /\ \E e \in Entities : \E n \in DOMAIN e.nodes :
          /\ is_builder_for(CodeNodeBuilder, e.nodes[n].content.Node) = "T"
          /\ is_builder_for(DefaultNodeBuilder, e.nodes[n].content.Node) = "T"
          /\ e.nodes[n].cls = "PythonCodeNode"

\* the uuid of the parsed custom node file D is the uuid of another one
Collides(D) == \E E \in Range(parsed) : E.id # D.id /\ E.uuid = D.uuid

\* C11: after the batch is parsed and linked, a parsed custom node file whose
\* uuid another parsed custom node file shares is not in the library, its
\* used_in is empty and it is in no used_in list; a parsed custom node file
\* whose uuid is unique is in the library; a collision raises no error
C11_CollidingUuidsLeftOut ==
    /\ (\E D \in Range(parsed) : Collides(D)) => error = NoErr
    /\ pc = "done" =>
          \A D \in Range(parsed) :
             IF Collides(D)
             THEN /\ ~Appears(D, library)
                  /\ used_in[D.id] = <<>>
                  /\ \A id \in DOMAIN used_in : ~Appears(D, used_in[id])
             ELSE Appears(D, library)

\* C11 witness: a linked batch with two custom node files of one uuid and a
\* third of a unique uuid, where the unique one and a colliding one depend
\* on each other
C11_Witness ==
    /\ pc = "done"
    /\ \E D, U \in Range(parsed) :
          /\ Collides(D) /\ ~Collides(U)
          /\ U.uuid \in Range(D.dependencies)
          /\ D.uuid \in Range(U.dependencies)
          /\ Appears(U, library)

\* C15 as stated: after linking, every member F of the used_in of a custom
\* node file C of the library is a returned file other than C that lists
\* C.uuid among its dependencies
C15_OnlyOtherFiles ==
    linkRuns >= 1 =>
        \A C \in Range(library) : \A k \in DOMAIN used_in[C.id] :
            /\ used_in[C.id][k].id # C.id
            /\ C.uuid \in Range(used_in[C.id][k].dependencies)
            /\ Appears(used_in[C.id][k], scripts \o library)

\* every .dyn/.dyf file of the batch has been read
AllRead == \A i \in DOMAIN files : _is_dynamo_file(files[i]) => reads[i] >= 1

\* a used_in list is given another value
UsedInModified == \E id \in DOMAIN used_in : used_in'[id] # used_in[id]

\* C12: in every run of the batch operation a used_in list is modified only
\* when every file of the batch has been read and parsed, and nothing is
\* read or parsed afterwards; a projection is made only after the linker has
\* run, on used_in lists that another run of the linker would not change;
\* no file entity changes after it was built
C12_PhaseOrdering ==
    [][/\ UsedInModified =>
             AllRead /\ reads' = reads /\ parsed' = parsed /\ scripts' = scripts
       /\ linkRuns >= 1 => reads' = reads /\ parsed' = parsed /\ scripts' = scripts
       /\ proj' # proj =>
             /\ linkRuns >= 1
             /\ add_used_in(scripts, library, used_in) = used_in
             /\ used_in' = used_in
       /\ \A i \in DOMAIN parsed : parsed'[i] = parsed[i]
       /\ \A i \in DOMAIN scripts : scripts'[i] = scripts[i]]_vars

\* C12 witness: a batch with a script was parsed and linked and the
\* projection of a custom node file shows a file that uses it
C12_Witness ==
    /\ pc = "done"
    /\ \E i \in DOMAIN files : _is_script_file(files[i])
    /\ proj.node # NoProj.node
    /\ proj.used_in # <<>>

\* C13 as stated: a document without a View section is parsed without
\* error to a file entity with no nodes and no groups
C13_NoViewNoNodesNoGroups ==
    /\ error = NoErr
    /\ \A e \in Entities :
          "View" \notin DOMAIN files[e.file].doc => e.nodes = <<>> /\ e.groups = <<>>

\* the NodeLibraryDependencies entries of the document entity e was built from
EntriesOf(e) == Get(files[e.file].doc, "NodeLibraryDependencies", <<>>)

\* the positions of the entries of type Package that list the node uuid
PackageEntries(e, uuid) ==
    {i \in DOMAIN EntriesOf(e) :
        /\ Get(EntriesOf(e)[i], "ReferenceType", Null) = "Package"
        /\ uuid \in Range(EntriesOf(e)[i].Nodes)}

\* the greatest element of a non-empty set of numbers
Last(S) == CHOOSE k \in S : \A j \in S : j <= k

\* C14: in every file entity a CustomNode listed by no entry of type Package
\* has the default package; otherwise its package is the Package object built
\* from the last entry of type Package that lists it, with that entry's name
\* and version; a node that is not a CustomNode has no package
C14_PackageOverlay ==
    \A e \in Entities : \A n \in DOMAIN e.nodes :
        IF e.nodes[n].cls # "CustomNode" THEN "package" \notin DOMAIN e.nodes[n]
        ELSE IF PackageEntries(e, e.nodes[n].uuid) = {}
        THEN e.nodes[n].package = PackageDefault
        ELSE /\ e.nodes[n].package.ref = Last(PackageEntries(e, e.nodes[n].uuid))
             /\ e.nodes[n].package.name =
                   EntriesOf(e)[Last(PackageEntries(e, e.nodes[n].uuid))].Name
             /\ e.nodes[n].package.version =
                   EntriesOf(e)[Last(PackageEntries(e, e.nodes[n].uuid))].Version

\* C14 witness: a file entity with a CustomNode that two entries of type
\* Package list and that shares the Package object of the second with another
\* CustomNode, and a CustomNode with the default package
C14_Witness ==
    /\ \E e \in Entities : \E n, m \in DOMAIN e.nodes :
          /\ n # m
          /\ e.nodes[n].cls = "CustomNode" /\ e.nodes[m].cls = "CustomNode"
          /\ Cardinality(PackageEntries(e, e.nodes[n].uuid)) = 2
          /\ e.nodes[n].package.ref = 2
          /\ e.nodes[m].package = e.nodes[n].package
    /\ \E e \in Entities : \E n \in DOMAIN e.nodes :
          e.nodes[n].cls = "CustomNode" /\ e.nodes[n].package = PackageDefault

\* C16 as stated: classification never ends with "no builder found", and a
\* batch of documents whose node records all have an Id and a view yields
\* entities with one node per node record
C16_FallbackMatchesAll ==
    /\ error # ErrNoBuilder
    /\ \A e \in Entities : Len(e.nodes) = Len(files[e.file].doc.Nodes)
    /\ pc = "done" /\ error = NoErr =>
          \A i \in DOMAIN files : \E e \in Entities : e.file = i

Hex ==
    {"0", "1", "2", "3", "4", "5", "6", "7", "8", "9",
     "a", "b", "c", "d", "e", "f", "A", "B", "C", "D", "E", "F"}

\* text is a GUID: 8-4-4-4-12 hexadecimal digits and nothing else
IsGuid(text) ==
    /\ Len(text) = GuidLen
    /\ \A i \in 1..GuidLen :
          IF i \in GuidHyphens THEN text[i] = "-" ELSE text[i] \in Hex

\* the custom rule as the specification words it
IsCustomRecord(rec) ==
    /\ Get(rec, "ConcreteType", Null) = CUSTOM_CONCRETE
    /\ Get(rec, "FunctionType", Null) = "Graph"
    /\ "FunctionSignature" \in DOMAIN rec
    /\ IsGuid(rec.FunctionSignature)

\* C17 as stated: a built node is a CustomNode if and only if its record has
\* the custom ConcreteType, FunctionType "Graph" and a FunctionSignature that
\* is a GUID of hexadecimal digits, its custom_uuid is then that signature,
\* and no classification raises a TypeError
C17_CustomNodeBySignature ==
    /\ error # ErrTypeError
    /\ \A e \in Entities : \A n \in DOMAIN e.nodes :
          /\ e.nodes[n].cls = "CustomNode" <=> IsCustomRecord(e.nodes[n].content.Node)
          /\ e.nodes[n].cls = "CustomNode" =>
                e.nodes[n].custom_uuid = e.nodes[n].content.Node.FunctionSignature

\* C18 as stated: in every file entity no two entries of the nodes list have
\* the same uuid
C18_NodeUuidsUnique ==
    \A e \in Entities : \A n, m \in DOMAIN e.nodes :
        e.nodes[n].uuid = e.nodes[m].uuid => n = m

\* C19 as stated: during a run of the batch operation getvalue() is called at
\* most once on each input file and at most one entity is built from it
C19_NoFileReadTwice ==
    \A i \in DOMAIN files :
        /\ reads[i] <= 1
        /\ Cardinality({e \in Entities : e.file = i}) <= 1

=============================================================================
